---- MODULE Spec2Model ----
(***************************************************************************)
(* SoundSpace: a piano panel and a drum panel played by keyboard or        *)
(* pointer, and a session controller that records note events into a log   *)
(* and exports it.                                                         *)
(*                                                                         *)
(* The model follows the React components: a state variable per useState / *)
(* useRef cell, one action per event handler, and the closures the code    *)
(* captures (the keyboard listener registered by the [pressedKeys] effect, *)
(* the onNotePlay callback captured by a playNote call that is waiting for *)
(* Tone.start()) as explicit values.                                       *)
(***************************************************************************)
EXTENDS Integers, Sequences, FiniteSets, TLC

\* ------------------------------------------------------------------ bounds
MaxTime == 1        \* Date.now() returns values in 1 .. 1 + MaxTime
MaxLog == 2         \* at most this many events are recorded
MaxPending == 2     \* at most this many triggers wait for Tone.start() at once
MaxTimers == 2      \* at most this many auto-clear timers are armed at once

\* The key identifiers (event.key) the keyboard sends in the model: "s" and
\* "S" (the same key with shift) are mapped by both panels (D4 on the piano,
\* Kick on the drums), "x" by neither.
KeyInputs == {"s", "S", "x"}

\* The notes / pads the pointer presses in the model.
PianoTargets == {"D4"}
DrumTargets == {"Kick"}

\* ------------------------------------------------------------- static data
Instrument == {"piano", "drums"}

whiteKeys == <<"C4", "D4", "E4", "F4", "G4", "A4", "B4", "C5">>

blackKeys == <<"C#4", "D#4", "F#4", "G#4", "A#4">>

keyboardMapping ==
  [k \in {"a", "s", "d", "f", "g", "h", "j", "k", "w", "e", "t", "y", "u"} |->
     CASE k = "a" -> "C4"  [] k = "s" -> "D4"  [] k = "d" -> "E4"
       [] k = "f" -> "F4"  [] k = "g" -> "G4"  [] k = "h" -> "A4"
       [] k = "j" -> "B4"  [] k = "k" -> "C5"  [] k = "w" -> "C#4"
       [] k = "e" -> "D#4" [] k = "t" -> "F#4" [] k = "y" -> "G#4"
       [] k = "u" -> "A#4"]

drumSounds ==
  << [name |-> "Kick",   key |-> "s", note |-> "C2"],
     [name |-> "Snare",  key |-> "d", note |-> "D2"],
     [name |-> "Hi-Hat", key |-> "f", note |-> "F#2"],
     [name |-> "Crash",  key |-> "g", note |-> "A#2"],
     [name |-> "Ride",   key |-> "h", note |-> "C3"],
     [name |-> "Tom",    key |-> "j", note |-> "E3"] >>

\* event.key.toLowerCase() on the identifiers the model sends
toLowerCase(k) ==
  CASE k = "A" -> "a" [] k = "S" -> "s" [] k = "X" -> "x" [] OTHER -> k

\* drumSounds.find(d => d.key === key): the sequence of matches, first one used
drumByKey(key) == SelectSeq(drumSounds, LAMBDA d : d.key = key)

\* drumSounds.find(d => d.name === drumName)
drumByName(name) == SelectSeq(drumSounds, LAMBDA d : d.name = name)

\* the synth stored under synthsRef.current[drumName] is a Tone.NoiseSynth
isNoiseSynth(name) == name = "Snare"

\* ------------------------------------------------------------------- state
VARIABLES
  activeInstrument,    \* SoundSpace: useState<Instrument>('piano')
  isRecording,         \* SoundSpace: useState(false)
  recordedNotes,       \* SoundSpace: useState<NoteEvent[]>([])
  recordingStartTime,  \* SoundSpace: useRef<number>(0)
  now,                 \* the latest value Date.now() has returned
  toneState,           \* Tone.context.state
  activeKeys,          \* Piano: useState<Set<string>> (empty while unmounted)
  activePads,          \* Drums: useState<Set<string>> (empty while unmounted)
  pressedKeys,         \* the mounted panel's pressedKeys
  listener,            \* what the mounted panel's registered keydown listener closes over
  held,                \* keys physically down (the input source, not the program)
  pending,             \* playNote / playDrum calls suspended at `await Tone.start()`,
                       \* oldest first
  timers,              \* armed setTimeout callbacks of the mounted panel, oldest first
  prior,               \* history: how many of the oldest suspended calls come from an
                       \* input handled before the latest handleStartRecording
  fx                   \* the event of the last step and its outward effects

vars == << activeInstrument, isRecording, recordedNotes, recordingStartTime, now,
           toneState, activeKeys, activePads, pressedKeys, listener, held,
           pending, timers, prior, fx >>

\* the effects of one step: the event, the synth triggers, the onNotePlay
\* calls and the documents offered for download
Effects(ev, sound, report, doc) ==
  [ev |-> ev, sound |-> sound, report |-> report, doc |-> doc]

Quiet(ev) == Effects(ev, <<>>, <<>>, <<>>)

\* the values a handleNotePlay instance closes over (useCallback deps)
Closure == [isRecording |-> isRecording, activeInstrument |-> activeInstrument]

\* the [pressedKeys] effect registering handleKeyDown of the current render
Register(pk) == [pressedKeys |-> pk, isRecording |-> isRecording,
                 activeInstrument |-> activeInstrument]

Init ==
  /\ activeInstrument = "piano"
  /\ isRecording = FALSE
  /\ recordedNotes = <<>>
  /\ recordingStartTime = 0
  /\ now = 1
  /\ toneState = "suspended"
  /\ activeKeys = {}
  /\ activePads = {}
  /\ pressedKeys = {}
  /\ listener = [pressedKeys |-> {}, isRecording |-> FALSE, activeInstrument |-> "piano"]
  /\ held = {}
  /\ pending = <<>>
  /\ timers = <<>>
  /\ prior = 0
  /\ fx = Quiet(<<"mount", "piano">>)


\* ------------------------------------------------------ session controller
\* handleNotePlay as created by a render whose isRecording / activeInstrument
\* are cl's, called when the log is notes and Date.now() returns t: the log
\* after setRecordedNotes(prev => [...prev, noteEvent])
handleNotePlaySwapped(notes, cl, note, t) ==
  IF cl.isRecording
    THEN Append(notes,
                [instrument |-> cl.activeInstrument,
                 note |-> note,
                 timestamp |-> recordingStartTime - t])
    ELSE notes

handleNotePlayPrepends(notes, cl, note, t) ==
  IF cl.isRecording
    THEN << [instrument |-> cl.activeInstrument,
             note |-> note,
             timestamp |-> t - recordingStartTime] >> \o notes
    ELSE notes

handleNotePlayReplaces(notes, cl, note, t) ==
  IF cl.isRecording
    THEN << [instrument |-> cl.activeInstrument,
             note |-> note,
             timestamp |-> t - recordingStartTime] >>
    ELSE notes

handleNotePlayAbsolute(notes, cl, note, t) ==
  IF cl.isRecording
    THEN Append(notes,
                [instrument |-> cl.activeInstrument,
                 note |-> note,
                 timestamp |-> t])
    ELSE notes

handleNotePlay(notes, cl, note, t) ==
  IF cl.isRecording
    THEN Append(notes,
                [instrument |-> cl.activeInstrument,
                 note |-> note,
                 timestamp |-> t - recordingStartTime])
    ELSE notes

\* Date.now() never runs backwards: what a call can return
DateNow == now .. (1 + MaxTime)

\* what Date.now() can return in a handleNotePlay call (the clock is read
\* only by a closure that is recording)
NotePlayTime(cl) == IF cl.isRecording THEN DateNow ELSE {now}

handleStartRecordingKeepsLog ==
  /\ isRecording' = TRUE
  /\ \E t \in DateNow : now' = t /\ recordingStartTime' = t
  /\ fx' = Quiet(<<"record", "">>)
  /\ prior' = Len(pending)
  /\ UNCHANGED << activeInstrument, recordedNotes, toneState, activeKeys, activePads,
                  pressedKeys, listener, held, pending, timers >>

handleStartRecording ==
  /\ isRecording' = TRUE
  /\ recordedNotes' = <<>>
  /\ \E t \in DateNow : now' = t /\ recordingStartTime' = t
  /\ fx' = Quiet(<<"record", "">>)
  /\ prior' = Len(pending)
  /\ UNCHANGED << activeInstrument, toneState, activeKeys, activePads,
                  pressedKeys, listener, held, pending, timers >>

handleStopRecording ==
  /\ isRecording' = FALSE
  /\ fx' = Quiet(<<"stop", "">>)
  /\ UNCHANGED << activeInstrument, recordedNotes, recordingStartTime, now,
                  toneState, activeKeys, activePads, pressedKeys, listener, held,
                  pending, timers, prior >>

durationOfFirst(notes) ==
  IF Len(notes) = 0 THEN 0 ELSE notes[1].timestamp

\* recordedNotes[recordedNotes.length - 1]?.timestamp || 0
duration(notes) ==
  IF Len(notes) = 0 THEN 0
  ELSE IF notes[Len(notes)].timestamp = 0 THEN 0 ELSE notes[Len(notes)].timestamp

\* the documents handleDownloadRecording offers for download (the title and
\* the file name, which only carry the time of the export, are left out)
recording(notes) ==
  IF Len(notes) = 0 THEN <<>>
  ELSE << [notes |-> notes, duration |-> duration(notes)] >>

handleDownloadRecording ==
  /\ fx' = Effects(<<"download", "">>, <<>>, <<>>, recording(recordedNotes))
  /\ UNCHANGED << activeInstrument, isRecording, recordedNotes, recordingStartTime,
                  now, toneState, activeKeys, activePads, pressedKeys, listener,
                  held, pending, timers, prior >>

\* a panel instance that is unmounted keeps running what it has suspended,
\* on disposed synths and with the callbacks it captured
Orphan(p) == [p EXCEPT !.live = FALSE]

selectInstrumentStopsRecording(i) ==
  /\ activeInstrument' = i
  /\ isRecording' = FALSE
  /\ fx' = Quiet(<<"select", i>>)
  /\ UNCHANGED << activeKeys, activePads, pressedKeys, listener, pending, timers,
                  recordedNotes, recordingStartTime, now, toneState, held, prior >>

\* the instrument switcher's onClick: setActiveInstrument(i). A different
\* value unmounts the mounted panel (state dropped, listeners removed, synths
\* disposed; its armed timers only touch the dropped state) and mounts the other.
selectInstrument(i) ==
  /\ activeInstrument' = i
  /\ fx' = Quiet(<<"select", i>>)
  /\ IF i = activeInstrument
       THEN UNCHANGED << activeKeys, activePads, pressedKeys, listener, pending, timers >>
       ELSE /\ activeKeys' = {}
            /\ activePads' = {}
            /\ pressedKeys' = {}
            /\ listener' = [pressedKeys |-> {}, isRecording |-> isRecording,
                            activeInstrument |-> i]
            /\ pending' = [j \in 1..Len(pending) |-> Orphan(pending[j])]
            /\ timers' = <<>>
  /\ UNCHANGED << isRecording, recordedNotes, recordingStartTime, now, toneState, held,
                  prior >>

\* ------------------------------------------------- what a trigger works on
\* the cells a playNote / playDrum call updates and the effects it has had
Cur ==
  [activeKeys |-> activeKeys, activePads |-> activePads,
   recordedNotes |-> recordedNotes, timers |-> timers,
   sound |-> <<>>, report |-> <<>>]

\* the step ends with the cells as st has them (a step that would exceed the
\* bounds of the model is not taken)
Commit(st, ev) ==
  /\ Len(st.recordedNotes) <= MaxLog
  /\ Len(st.timers) <= MaxTimers
  /\ activeKeys' = st.activeKeys
  /\ activePads' = st.activePads
  /\ recordedNotes' = st.recordedNotes
  /\ timers' = st.timers
  /\ fx' = Effects(ev, st.sound, st.report, <<>>)


\* ------------------------------------------------------------------- Piano
\* playNote from the line after `await Tone.start()` on: setActiveKeys (a
\* no-op once the panel is unmounted), the synth trigger (synthRef still holds
\* the synth after its dispose()), onNotePlay, setTimeout
playNoteStarted(st, note, cl, live, t) ==
  [st EXCEPT
     !.activeKeys = IF live THEN @ \cup {note} ELSE @,
     !.sound = Append(@, [synth |-> "Synth", args |-> <<note, "8n">>, disposed |-> ~live]),
     !.recordedNotes = handleNotePlay(@, cl, note, t),
     !.report = Append(@, note),
     !.timers = IF live THEN Append(@, note) ELSE @]

\* a playNote call suspended at the await, with the closure it will go on with
playNoteWaiting(note, cl) ==
  [panel |-> "piano", name |-> note, note |-> note,
   isRecording |-> cl.isRecording, live |-> TRUE]

\* playNote(note) of a render whose onNotePlay closes over cl
playNote(note, cl, ev) ==
  IF toneState # "running"
    THEN /\ Len(pending) < MaxPending
         /\ pending' = Append(pending, playNoteWaiting(note, cl))
         /\ fx' = Quiet(ev)
         /\ UNCHANGED << activeKeys, activePads, recordedNotes, now, timers >>
    ELSE /\ \E t \in NotePlayTime(cl) :
              /\ now' = t
              /\ Commit(playNoteStarted(Cur, note, cl, TRUE, t), ev)
         /\ UNCHANGED pending

PianoHandleKeyDownMarksAnyKey(e) ==
  LET key == toLowerCase(e) IN
  IF key \in DOMAIN keyboardMapping /\ key \notin listener.pressedKeys
    THEN /\ pressedKeys' = pressedKeys \cup {key}
         /\ playNote(keyboardMapping[key],
                     [isRecording |-> listener.isRecording,
                      activeInstrument |-> listener.activeInstrument],
                     <<"keydown", e>>)
         /\ listener' = Register(pressedKeys')
    ELSE /\ fx' = Quiet(<<"keydown", e>>)
         /\ pressedKeys' = pressedKeys \cup {key}
         /\ listener' = Register(pressedKeys')
         /\ UNCHANGED << activeKeys, activePads, recordedNotes, now, timers, pending >>

\* the registered keydown listener of the piano
PianoHandleKeyDown(e) ==
  LET key == toLowerCase(e) IN
  IF key \in DOMAIN keyboardMapping /\ key \notin listener.pressedKeys
    THEN /\ pressedKeys' = pressedKeys \cup {key}
         /\ playNote(keyboardMapping[key],
                     [isRecording |-> listener.isRecording,
                      activeInstrument |-> listener.activeInstrument],
                     <<"keydown", e>>)
         /\ listener' = Register(pressedKeys')
    ELSE /\ fx' = Quiet(<<"keydown", e>>)
         /\ UNCHANGED << pressedKeys, listener, activeKeys, activePads,
                         recordedNotes, now, timers, pending >>

PianoHandleKeyUpKeepsActive(e) ==
  LET key == toLowerCase(e) IN
  /\ fx' = Quiet(<<"keyup", e>>)
  /\ IF key \in DOMAIN keyboardMapping
       THEN /\ pressedKeys' = pressedKeys \ {key}
            /\ listener' = Register(pressedKeys')
       ELSE UNCHANGED << pressedKeys, listener >>
  /\ UNCHANGED << activeKeys, activePads, recordedNotes, now, timers, pending >>

PianoHandleKeyUp(e) ==
  LET key == toLowerCase(e) IN
  /\ fx' = Quiet(<<"keyup", e>>)
  /\ IF key \in DOMAIN keyboardMapping
       THEN /\ pressedKeys' = pressedKeys \ {key}
            /\ activeKeys' = activeKeys \ {keyboardMapping[key]}
            /\ listener' = Register(pressedKeys')
       ELSE UNCHANGED << pressedKeys, activeKeys, listener >>
  /\ UNCHANGED << activePads, recordedNotes, now, timers, pending >>

handleKeyPressUnlessHeld(note) ==
  IF \E k \in pressedKeys : k \in DOMAIN keyboardMapping /\ keyboardMapping[k] = note
    THEN /\ fx' = Quiet(<<"pointer", note>>)
         /\ UNCHANGED << activeKeys, activePads, recordedNotes, now, timers, pending >>
    ELSE playNote(note, Closure, <<"pointer", note>>)

\* onMouseDown of a piano key: handleKeyPress(note) of the current render
handleKeyPress(note) == playNote(note, Closure, <<"pointer", note>>)

\* Object.keys(keyboardMapping).find(k => keyboardMapping[k] === note)
keyOfNote(note) == {k \in DOMAIN keyboardMapping : keyboardMapping[k] = note}

isKeyActive(note) ==
  \/ note \in activeKeys
  \/ /\ keyOfNote(note) # {}
     /\ \E k \in keyOfNote(note) : k \in pressedKeys

\* ------------------------------------------------------------------- Drums
playDrumStarted(st, drumName, note, cl, live, t) ==
  [st EXCEPT
     !.activePads = IF live THEN @ \cup {drumName} ELSE @,
     !.sound = Append(@, [synth |-> drumName,
                          args |-> IF isNoiseSynth(drumName) THEN <<"8n">>
                                   ELSE <<note, "8n">>,
                          disposed |-> ~live]),
     !.recordedNotes = handleNotePlay(@, cl, drumName \o "-" \o note, t),
     !.report = Append(@, drumName \o "-" \o note),
     !.timers = IF live THEN Append(@, drumName) ELSE @]

playDrumWaiting(drumName, note, cl) ==
  [panel |-> "drums", name |-> drumName, note |-> note,
   isRecording |-> cl.isRecording, live |-> TRUE]

playDrum(drumName, note, cl, ev) ==
  IF toneState # "running"
    THEN /\ Len(pending) < MaxPending
         /\ pending' = Append(pending, playDrumWaiting(drumName, note, cl))
         /\ fx' = Quiet(ev)
         /\ UNCHANGED << activeKeys, activePads, recordedNotes, now, timers >>
    ELSE /\ \E t \in NotePlayTime(cl) :
              /\ now' = t
              /\ Commit(playDrumStarted(Cur, drumName, note, cl, TRUE, t), ev)
         /\ UNCHANGED pending

DrumsHandleKeyDown(e) ==
  LET key == toLowerCase(e)
      drum == drumByKey(key)
  IN
  IF drum # <<>> /\ key \notin listener.pressedKeys
    THEN /\ pressedKeys' = pressedKeys \cup {key}
         /\ playDrum(drum[1].name, drum[1].note,
                     [isRecording |-> listener.isRecording,
                      activeInstrument |-> listener.activeInstrument],
                     <<"keydown", e>>)
         /\ listener' = Register(pressedKeys')
    ELSE /\ fx' = Quiet(<<"keydown", e>>)
         /\ UNCHANGED << pressedKeys, listener, activeKeys, activePads,
                         recordedNotes, now, timers, pending >>

DrumsHandleKeyUp(e) ==
  LET key == toLowerCase(e)
      drum == drumByKey(key)
  IN
  /\ fx' = Quiet(<<"keyup", e>>)
  /\ IF drum # <<>>
       THEN /\ pressedKeys' = pressedKeys \ {key}
            /\ activePads' = activePads \ {drum[1].name}
            /\ listener' = Register(pressedKeys')
       ELSE UNCHANGED << pressedKeys, activePads, listener >>
  /\ UNCHANGED << activeKeys, recordedNotes, now, timers, pending >>

\* onMouseDown of a pad: handlePadClick(drum.name, drum.note) of the current render
handlePadClick(drumName, note) ==
  playDrum(drumName, note, Closure, <<"pointer", drumName>>)

isPadActive(drumName) ==
  LET drum == drumByName(drumName) IN
  \/ drumName \in activePads
  \/ drum # <<>> /\ drum[1].key \in pressedKeys


\* ------------------------------------------------- inputs and the event loop
\* a keydown event on window (a first press or the keyboard's auto-repeat)
KeyDown(e) ==
  /\ held' = held \cup {toLowerCase(e)}
  /\ IF activeInstrument = "piano" THEN PianoHandleKeyDown(e) ELSE DrumsHandleKeyDown(e)
  /\ UNCHANGED << activeInstrument, isRecording, recordingStartTime, toneState, prior >>

\* a keyup event on window, for a key that is down
KeyUp(e) ==
  /\ toLowerCase(e) \in held
  /\ held' = held \ {toLowerCase(e)}
  /\ IF activeInstrument = "piano" THEN PianoHandleKeyUp(e) ELSE DrumsHandleKeyUp(e)
  /\ UNCHANGED << activeInstrument, isRecording, recordingStartTime, toneState, prior >>

\* a mousedown on a key / pad of the mounted panel
PointerPress ==
  /\ IF activeInstrument = "piano"
       THEN \E note \in PianoTargets : handleKeyPress(note)
       ELSE \E name \in DrumTargets :
              handlePadClick(name, drumByName(name)[1].note)
  /\ UNCHANGED << activeInstrument, isRecording, recordingStartTime, toneState,
                  pressedKeys, listener, held, prior >>

StartedWithCurrentTag(st, p, t) ==
  LET cl == [isRecording |-> p.isRecording, activeInstrument |-> activeInstrument] IN
  IF p.panel = "piano"
    THEN playNoteStarted(st, p.name, cl, p.live, t)
    ELSE playDrumStarted(st, p.name, p.note, cl, p.live, t)

\* the suspended call p goes on, its Date.now() returning t
Started(st, p, t) ==
  LET cl == [isRecording |-> p.isRecording, activeInstrument |-> p.panel] IN
  IF p.panel = "piano"
    THEN playNoteStarted(st, p.name, cl, p.live, t)
    ELSE playDrumStarted(st, p.name, p.note, cl, p.live, t)

\* the suspended calls q go on one after the other, oldest first
RECURSIVE StartedAll(_, _, _)
StartedAll(st, q, ts) ==
  IF q = <<>> THEN st
  ELSE StartedAll(Started(st, Head(q), Head(ts)), Tail(q), Tail(ts))

\* what the Date.now() calls of the suspended calls q can return, in order
StartedTimes(q) ==
  { ts \in [1..Len(q) -> DateNow] :
      \A j \in 1..Len(q) :
        LET before == IF j = 1 THEN now ELSE ts[j - 1] IN
        IF q[j].isRecording THEN ts[j] >= before ELSE ts[j] = before }

\* The audio context starts. The resume() promises of the Tone.start() calls
\* are resolved, in the order of the calls, by the task that sets the state to
\* 'running'; the suspended calls go on as microtasks of that task, before the
\* event loop takes the next input event.
ToneStarted ==
  /\ toneState # "running"
  /\ pending # <<>>
  /\ toneState' = "running"
  /\ pending' = <<>>
  /\ prior' = 0
  /\ \E ts \in StartedTimes(pending) :
       /\ now' = ts[Len(pending)]
       /\ Commit(StartedAll(Cur, pending, ts), <<"started", "">>)
  /\ UNCHANGED << activeInstrument, isRecording, recordingStartTime,
                  pressedKeys, listener, held >>

TimerFireKeepsActive ==
  /\ timers # <<>>
  /\ timers' = Tail(timers)
  /\ fx' = Quiet(<<"timeout", Head(timers)>>)
  /\ UNCHANGED << activeInstrument, isRecording, recordedNotes, recordingStartTime,
                  now, toneState, pressedKeys, listener, held, pending, prior,
                  activeKeys, activePads >>

\* the oldest armed setTimeout callback of the mounted panel runs
TimerFire ==
  /\ timers # <<>>
  /\ timers' = Tail(timers)
  /\ activeKeys' = IF activeInstrument = "piano" THEN activeKeys \ {Head(timers)}
                   ELSE activeKeys
  /\ activePads' = IF activeInstrument = "drums" THEN activePads \ {Head(timers)}
                   ELSE activePads
  /\ fx' = Quiet(<<"timeout", Head(timers)>>)
  /\ UNCHANGED << activeInstrument, isRecording, recordedNotes, recordingStartTime,
                  now, toneState, pressedKeys, listener, held, pending, prior >>

\* the Record / Stop / Download buttons exist only in the states that render them
ClickRecord == ~isRecording /\ handleStartRecording

ClickStop == isRecording /\ handleStopRecording

ClickDownload == Len(recordedNotes) > 0 /\ handleDownloadRecording

Next ==
  \/ ClickRecord
  \/ ClickStop
  \/ ClickDownload
  \/ \E i \in Instrument : selectInstrument(i)
  \/ \E e \in KeyInputs : KeyDown(e)
  \/ \E e \in KeyInputs : KeyUp(e)
  \/ PointerPress
  \/ ToneStarted
  \/ TimerFire

Spec == Init /\ [][Next]_vars

\* an armed timer runs its callback when its delay is over, and the audio
\* context that Tone.start() resumes does start
SpecLive == Spec /\ WF_vars(TimerFire) /\ WF_vars(ToneStarted)

\* the same program with the controller's operations called in any state
NextOps ==
  \/ handleStartRecording
  \/ handleStopRecording
  \/ handleDownloadRecording
  \/ \E i \in Instrument : selectInstrument(i)
  \/ \E e \in KeyInputs : KeyDown(e)
  \/ \E e \in KeyInputs : KeyUp(e)
  \/ PointerPress
  \/ ToneStarted
  \/ TimerFire

SpecOps == Init /\ [][NextOps]_vars


\* ------------------------------------------------------------------ claims
\* the key is mapped by the mounted panel
Mapped(key) ==
  IF activeInstrument = "piano" THEN key \in DOMAIN keyboardMapping
  ELSE drumByKey(key) # <<>>

\* the identifier the mounted panel reports for a mapped key
NoteOfKey(key) ==
  IF activeInstrument = "piano" THEN keyboardMapping[key]
  ELSE drumByKey(key)[1].name \o "-" \o drumByKey(key)[1].note

\* C1: repeat suppression. A key-down for a key that has had a key-down and
\* no key-up since triggers nothing: no synth trigger, no onNotePlay call, no
\* playNote / playDrum left waiting, no log append.
C1_RepeatSuppression ==
  [][\A e \in KeyInputs :
       (fx'.ev = <<"keydown", e>> /\ toLowerCase(e) \in held)
         => /\ fx'.sound = <<>>
            /\ fx'.report = <<>>
            /\ pending' = pending
            /\ recordedNotes' = recordedNotes]_vars

\* C2: while isRecording is false (before and after the step) no step changes
\* the log, so from a stop to the next start the log is what it was at the stop.
C2_NoAppendWhileStopped ==
  [][(~isRecording /\ ~isRecording') => recordedNotes' = recordedNotes]_vars

\* C3: while recording, a key-down of a mapped key that is not held appends
\* exactly one event, whose note is the identifier mapped to the key (stated
\* for a running audio context, where the handler does not have to wait).
C3_KeyDownAppends ==
  [][\A e \in KeyInputs :
       ( /\ fx'.ev = <<"keydown", e>>
         /\ isRecording
         /\ toneState = "running"
         /\ Mapped(toLowerCase(e))
         /\ toLowerCase(e) \notin held )
         => recordedNotes' =
              Append(recordedNotes,
                     [instrument |-> activeInstrument,
                      note |-> NoteOfKey(toLowerCase(e)),
                      timestamp |-> now' - recordingStartTime])]_vars

\* C4: right after startRecording the session is recording, the log is empty
\* and startTime is the time just read.
C4_StartRecordingResets ==
  fx.ev = <<"record", "">>
    => /\ isRecording
       /\ recordedNotes = <<>>
       /\ recordingStartTime = now

\* a restart: the keyboard listener was registered during an earlier recording
C4_Witness ==
  /\ fx.ev = <<"record", "">>
  /\ listener.isRecording
  /\ toneState = "running"
  /\ recordingStartTime = 1 + MaxTime
  /\ recordedNotes = <<>>

\* C5: the timestamps of the log never decrease along the log.
C5_TimestampsNonDecreasing ==
  \A i, j \in 1..Len(recordedNotes) :
    i < j => recordedNotes[i].timestamp <= recordedNotes[j].timestamp

C5_Witness ==
  /\ Len(recordedNotes) >= 2
  /\ recordedNotes[1].timestamp < recordedNotes[2].timestamp


\* the note a suspended call reports when it goes on
Reported(p) == IF p.panel = "piano" THEN p.name ELSE p.name \o "-" \o p.note

\* the suspended calls whose report reaches the log
Recording(q) == SelectSeq(q, LAMBDA p : p.isRecording)

\* C6: the log follows the order in which the inputs were processed. An input
\* that triggers at once puts its event at the end of the log while no earlier
\* input is still waiting to be logged; when the audio context starts, the
\* events of the waiting inputs go to the end of the log, oldest input first.
C6_LogFollowsInputOrder ==
  [][ /\ (fx'.ev[1] \in {"keydown", "pointer"} /\ fx'.report # <<>>)
          => /\ Recording(pending) = <<>>
             /\ \/ recordedNotes' = recordedNotes
                \/ /\ Len(recordedNotes') = Len(recordedNotes) + 1
                   /\ SubSeq(recordedNotes', 1, Len(recordedNotes)) = recordedNotes
                   /\ recordedNotes'[Len(recordedNotes')].note = fx'.report[1]
      /\ fx'.ev[1] = "started"
          => /\ Len(recordedNotes') = Len(recordedNotes) + Len(Recording(pending))
             /\ SubSeq(recordedNotes', 1, Len(recordedNotes)) = recordedNotes
             /\ \A j \in 1..Len(Recording(pending)) :
                  recordedNotes'[Len(recordedNotes) + j].note
                    = Reported(Recording(pending)[j]) ]_vars

\* two inputs that waited for the audio context, logged in their order
C6_Witness ==
  /\ fx.ev[1] = "started"
  /\ Len(fx.report) = 2
  /\ fx.report[1] # fx.report[2]
  /\ Len(recordedNotes) = 2
  /\ recordedNotes[1].note = fx.report[1]
  /\ recordedNotes[2].note = fx.report[2]

\* the notes of the mounted panel
PanelNotes ==
  IF activeInstrument = "piano"
    THEN {whiteKeys[i] : i \in 1..Len(whiteKeys)} \cup {blackKeys[i] : i \in 1..Len(blackKeys)}
    ELSE {drumSounds[i].name : i \in 1..Len(drumSounds)}

\* the panel shows the note active
Shown(n) == IF activeInstrument = "piano" THEN isKeyActive(n) ELSE isPadActive(n)

\* C7: a trigger that finds the audio context not running still reports the
\* note through onNotePlay and shows it active in the same step; only the
\* synth trigger waits.
C7_ReportDoesNotWait ==
  [][(fx'.ev[1] \in {"keydown", "pointer"} /\ Len(pending') > Len(pending))
       => /\ fx'.report = << Reported(pending'[Len(pending')]) >>
          /\ \E n \in PanelNotes :
               n = pending'[Len(pending')].name /\ Shown(n)']_vars

\* the active window of the note's most recent trigger has not expired: the
\* timers fire oldest first, so it is open while any timer of the note is armed
WindowOpen(n) == \E i \in 1..Len(timers) : timers[i] = n

\* a keyboard key mapped to the note is held
KeyHeld(n) ==
  IF activeInstrument = "piano" THEN \E k \in keyOfNote(n) : k \in pressedKeys
  ELSE \E i \in 1..Len(drumSounds) :
         drumSounds[i].name = n /\ drumSounds[i].key \in pressedKeys

\* C8: a note is shown active iff its window is open or a key mapped to it is held.
C8_VisualActive ==
  \A n \in PanelNotes : Shown(n) <=> (WindowOpen(n) \/ KeyHeld(n))

\* C9: every event appended to the log is tagged with the instrument that is
\* selected when it is appended.
C9_TagIsSelectedInstrument ==
  [][\A j \in (Len(recordedNotes) + 1)..Len(recordedNotes') :
       recordedNotes'[j].instrument = activeInstrument']_vars

\* C10: an export of an empty log produces nothing; an export of a log of
\* length L > 0 produces one document whose notes are the log and whose
\* duration is the last timestamp; the log, the recording flag and the
\* selected instrument are as before.
C10_Export ==
  [][fx'.ev = <<"download", "">>
       => /\ recordedNotes' = recordedNotes
          /\ isRecording' = isRecording
          /\ activeInstrument' = activeInstrument
          /\ fx'.sound = <<>> /\ fx'.report = <<>>
          /\ IF Len(recordedNotes) = 0
               THEN fx'.doc = <<>>
               ELSE /\ Len(fx'.doc) = 1
                    /\ fx'.doc[1].notes = recordedNotes
                    /\ fx'.doc[1].duration
                         = recordedNotes[Len(recordedNotes)].timestamp]_vars

C10_Witness ==
  /\ fx.ev = <<"download", "">>
  /\ Len(fx.doc) = 1
  /\ Len(fx.doc[1].notes) = 2
  /\ fx.doc[1].notes = recordedNotes
  /\ fx.doc[1].notes[1].timestamp = 0
  /\ fx.doc[1].duration = 1

\* C11: selecting an instrument leaves the recording flag, the log and the
\* start time exactly as they were, in whatever state it is done.
C11_SelectKeepsSession ==
  [][\A i \in Instrument :
       fx'.ev = <<"select", i>>
         => /\ activeInstrument' = i
            /\ isRecording' = isRecording
            /\ recordedNotes' = recordedNotes
            /\ recordingStartTime' = recordingStartTime]_vars

\* a switch to the other panel in the middle of a recording that has events
C11_Witness ==
  /\ fx.ev = <<"select", "drums">>
  /\ activeInstrument = "drums"
  /\ activeKeys = {} /\ pressedKeys = {}
  /\ "s" \in held
  /\ isRecording
  /\ Len(recordedNotes) > 0
  /\ recordingStartTime > 1

\* C12: a key-down or key-up of a key the mounted panel does not map changes
\* nothing: pressedKeys, the active sets and the log stay as they are, no
\* synth is triggered, onNotePlay is not called, no call is left waiting and
\* no timer is armed.
C12_UnmappedKeyIsNoOp ==
  [][\A e \in KeyInputs :
       ( /\ fx'.ev \in {<<"keydown", e>>, <<"keyup", e>>}
         /\ ~Mapped(toLowerCase(e)) )
         => /\ pressedKeys' = pressedKeys
            /\ activeKeys' = activeKeys
            /\ activePads' = activePads
            /\ recordedNotes' = recordedNotes
            /\ fx'.sound = <<>>
            /\ fx'.report = <<>>
            /\ pending' = pending
            /\ timers' = timers]_vars

\* an unmapped key goes down while a mapped key is pressed, its note is
\* active and the log has an event
C12_Witness ==
  /\ fx.ev = <<"keydown", "x">>
  /\ activeInstrument = "piano"
  /\ pressedKeys = {"s"}
  /\ activeKeys = {"D4"}
  /\ timers # <<>>
  /\ isRecording
  /\ Len(recordedNotes) > 0

\* what the mounted panel reports for the key / pad the pointer presses
ReportOfTarget(n) ==
  IF activeInstrument = "piano" THEN n ELSE n \o "-" \o drumByName(n)[1].note

\* C13: a pointer press always triggers, whatever pressedKeys holds, and
\* leaves pressedKeys alone. With the audio context running the press
\* triggers the synth once and calls onNotePlay once with its note; otherwise
\* exactly one call for the note is left waiting, and when the audio context
\* starts every waiting call triggers once and reports once.
C13_PointerAlwaysTriggers ==
  [][ /\ \A n \in PianoTargets \cup DrumTargets :
           fx'.ev = <<"pointer", n>>
             => /\ pressedKeys' = pressedKeys
                /\ IF toneState = "running"
                     THEN /\ Len(fx'.sound) = 1
                          /\ fx'.sound[1].args[1] = (IF activeInstrument = "piano" THEN n
                                                     ELSE drumByName(n)[1].note)
                          /\ fx'.report = << ReportOfTarget(n) >>
                          /\ pending' = pending
                     ELSE /\ fx'.sound = <<>>
                          /\ fx'.report = <<>>
                          /\ Len(pending') = Len(pending) + 1
                          /\ SubSeq(pending', 1, Len(pending)) = pending
                          /\ Reported(pending'[Len(pending')]) = ReportOfTarget(n)
      /\ fx'.ev[1] = "started"
           => /\ pending' = <<>>
              /\ Len(fx'.sound) = Len(pending)
              /\ Len(fx'.report) = Len(pending)
              /\ \A j \in 1..Len(pending) : fx'.report[j] = Reported(pending[j]) ]_vars

\* a pointer press on D4 while the key mapped to D4 is pressed
C13_Witness ==
  /\ fx.ev = <<"pointer", "D4">>
  /\ pressedKeys = {"s"}
  /\ "s" \in held
  /\ Len(fx.sound) = 1
  /\ fx.report = <<"D4">>

\* the log a is the beginning of the log b
IsPrefix(a, b) == Len(a) <= Len(b) /\ SubSeq(b, 1, Len(a)) = a

\* C14: the log is append-only. A step leaves the log as it is, or puts one
\* event at its end with the earlier events untouched, or is startRecording,
\* which empties it. (The step in which the audio context starts is one
\* handleNotePlay call per waiting trigger: it puts one event at the end per
\* waiting call that records.)
C14_LogAppendOnly ==
  [][ \/ recordedNotes' = recordedNotes
      \/ /\ fx'.ev[1] \in {"keydown", "pointer"}
         /\ IsPrefix(recordedNotes, recordedNotes')
         /\ Len(recordedNotes') = Len(recordedNotes) + 1
      \/ /\ fx'.ev[1] = "started"
         /\ IsPrefix(recordedNotes, recordedNotes')
         /\ Len(recordedNotes') = Len(recordedNotes) + Len(Recording(pending))
      \/ /\ fx'.ev = <<"record", "">>
         /\ recordedNotes' = <<>> ]_vars

\* an event put behind an earlier one of another instrument
C14_Witness ==
  /\ fx.ev[1] = "pointer"
  /\ Len(recordedNotes) = 2
  /\ recordedNotes[1].instrument # recordedNotes[2].instrument
  /\ recordedNotes[2].note = fx.report[1]

\* C15: the timestamp of an event is the time between the latest
\* startRecording and the moment the event is appended, and is not negative:
\* an event appended by a step carries a clock value read in that step minus
\* the start time, the last one the latest value read.
C15_TimestampIsElapsed ==
  [][\A j \in (Len(recordedNotes) + 1)..Len(recordedNotes') :
       /\ recordedNotes'[j].timestamp >= 0
       /\ recordedNotes'[j].timestamp >= now - recordingStartTime
       /\ recordedNotes'[j].timestamp <= now' - recordingStartTime
       /\ recordingStartTime' = recordingStartTime
       /\ j = Len(recordedNotes') =>
            recordedNotes'[j].timestamp = now' - recordingStartTime]_vars

\* a second event, appended one tick after the start of the recording
C15_Witness ==
  /\ fx.report # <<>>
  /\ recordingStartTime = 1
  /\ now = 2
  /\ Len(recordedNotes) = 2
  /\ recordedNotes[1].timestamp = 0
  /\ Len(recordedNotes) > 0
  /\ recordedNotes[Len(recordedNotes)].timestamp = 1

\* the entry of the mounted panel's active set for a mapped key
ActiveEntryOfKey(key) ==
  IF activeInstrument = "piano" THEN keyboardMapping[key] ELSE drumByKey(key)[1].name

\* the mounted panel's stored active set
ActiveSet == IF activeInstrument = "piano" THEN activeKeys ELSE activePads

\* C16: the key-up of a mapped key takes the key out of pressedKeys and its
\* note out of the stored active set in that very step, whoever put it there.
C16_KeyUpClearsAtOnce ==
  [][\A e \in KeyInputs :
       (fx'.ev = <<"keyup", e>> /\ Mapped(toLowerCase(e)))
         => /\ pressedKeys' = pressedKeys \ {toLowerCase(e)}
            /\ ActiveSet' = ActiveSet \ {ActiveEntryOfKey(toLowerCase(e))}
            /\ toLowerCase(e) \notin pressedKeys'
            /\ ActiveEntryOfKey(toLowerCase(e)) \notin ActiveSet']_vars

\* the key goes up while two triggers of its note have their timers armed
C16_Witness ==
  /\ fx.ev = <<"keyup", "s">>
  /\ activeInstrument = "piano"
  /\ timers = <<"D4", "D4">>
  /\ "D4" \notin activeKeys
  /\ pressedKeys = {}

\* the panel that has the note n
PanelOf(n) == IF \E i \in 1..Len(drumSounds) : drumSounds[i].name = n
                THEN "drums" ELSE "piano"

\* the note n is on the screen and shown active
ShownActive(n) == activeInstrument = PanelOf(n) /\ Shown(n)

\* a key that the panel of n maps to n is down
HeldFor(n) ==
  \E k \in held :
    IF PanelOf(n) = "piano"
      THEN k \in DOMAIN keyboardMapping /\ keyboardMapping[k] = n
      ELSE drumByKey(k) # <<>> /\ drumByKey(k)[1].name = n

\* the step is an input that triggers n (at once, or left waiting for the
\* audio context)
TriggerOf(n) ==
  /\ fx'.ev[1] \in {"keydown", "pointer"}
  /\ activeInstrument = PanelOf(n)
  /\ \/ /\ Len(pending') > Len(pending)
        /\ pending'[Len(pending')].name = n
     \/ /\ fx'.sound # <<>>
        /\ n \in {fx'.sound[1].synth, fx'.sound[1].args[1]}

\* C17: auto-clear. If from some point on no key mapped to the note is held
\* and no input triggers the note, then from some point on the note is never
\* shown active, provided armed timers fire and the audio context starts.
C17_AutoClear ==
  \A n \in PianoTargets \cup DrumTargets :
    (<>[]~HeldFor(n) /\ <>[][~TriggerOf(n)]_vars) => <>[]~ShownActive(n)

\* the timer of a pointer trigger has fired and the note is no longer shown
C17_Witness ==
  /\ fx.ev = <<"timeout", "D4">>
  /\ activeInstrument = "piano"
  /\ timers = <<>>
  /\ held = {}
  /\ ~Shown("D4")

\* the note names of the piano
PianoNotes ==
  {whiteKeys[i] : i \in 1..Len(whiteKeys)} \cup {blackKeys[i] : i \in 1..Len(blackKeys)}

\* the identifiers the drums report: '<drum name>-<drum note>'
DrumNotes ==
  {drumSounds[i].name \o "-" \o drumSounds[i].note : i \in 1..Len(drumSounds)}

\* C18: tag and note agree in the log: an event tagged 'piano' has a piano
\* note name, an event tagged 'drums' the identifier of a drum voice.
C18_TagAndNoteAgree ==
  \A j \in 1..Len(recordedNotes) :
    /\ recordedNotes[j].instrument = "piano" => recordedNotes[j].note \in PianoNotes
    /\ recordedNotes[j].instrument = "drums" => recordedNotes[j].note \in DrumNotes

\* a piano trigger that waited for the audio context is logged after a switch
\* to the drums, behind a drum event
C18_Witness ==
  /\ fx.ev[1] = "started"
  /\ activeInstrument = "drums"
  /\ Len(recordedNotes) = 2
  /\ recordedNotes[1].instrument = "drums"
  /\ recordedNotes[2].instrument = "piano"
  /\ recordedNotes[2].note = "D4"

\* C19: every logged event comes from an input handled after the latest
\* startRecording: when the audio context starts, none of the waiting calls
\* whose input was handled before that startRecording appends to the log.
C19_NoTriggerFromBeforeStart ==
  [][fx'.ev[1] = "started" => \A j \in 1..prior : ~pending[j].isRecording]_vars

\* C20: after a panel is torn down it triggers no sound on its disposed
\* synths and does not call onNotePlay: no step triggers a disposed synth
\* (the call that does so reports its note right after).
C20_NothingAfterTeardown ==
  \A i \in 1..Len(fx.sound) : ~fx.sound[i].disposed

====
